---- MODULE Spec2Model ----
(***************************************************************************)
(* Model of the batch scheduler of TrueAudioDetector                       *)
(* (src/assets/js/modules/audio-utils.js): handleFiles, processQueue,      *)
(* analyzeAudio, removeCard, clearAllResults and the settings handler.     *)
(*                                                                         *)
(* One step of the model is one turn of the JavaScript event loop, except  *)
(* that the part of processQueue after `await Promise.allSettled` is a     *)
(* step of its own (pc = "awaiting"): it is a microtask, so no other       *)
(* handler runs between the two.                                           *)
(*                                                                         *)
(* The functions of the spectral analysis (findCutoffFrequency,            *)
(* detectArtificialCutoff, calculateDynamicRange, findSpectralPeaks,       *)
(* calculateConfidence, evaluateQuality) are operators; AnalysisSpec       *)
(* draws their arguments and applies them, one call per behaviour.         *)
(***************************************************************************)
EXTENDS Integers, Sequences, FiniteSets, TLC

\* ---- bounds of the model ------------------------------------------------
MaxFiles == 3      \* files submitted in one run; ids are 1..MaxFiles
MaxDrop  == 3      \* files handed to one handleFiles call
MaxLimit == 2      \* largest value offered for settings.concurrentLimit

\* ---- program constants --------------------------------------------------
DefaultConcurrentLimit == 2
DefaultFftSize == 4096

\* Values a saved or selected fftSize can take: the code validates none.
FftSizes == {DefaultFftSize, 1000}

\* The kinds of file a caller can hand in: decodable audio, audio that does
\* not decode, and something that is no audio file at all.
FileKinds == {"good", "corrupt", "text"}

Null == "null"

\* No analysis function has been called yet.
NoCall == [fn |-> "none"]

Min(a, b) == IF a < b THEN a ELSE b

\* ---- JavaScript Map, kept as a sequence of entries in insertion order ---
Ids(m) == {m[i].id : i \in DOMAIN m}

MapSet(m, id, v) ==
    IF id \in Ids(m)
    THEN [i \in DOMAIN m |-> IF m[i].id = id THEN v ELSE m[i]]
    ELSE Append(m, v)

MapDelete(m, id) == SelectSeq(m, LAMBDA e : e.id # id)

VARIABLES
    queue,            \* this.queue: entries [id, file, status, card]
    processingQueue,  \* this.processingQueue
    results,          \* this.results: the ids that have a stored verdict
    settings,         \* this.settings: [concurrentLimit, fftSize]
    isProcessing,     \* this.isProcessing
    totalFiles,       \* this.totalFiles
    processedCount,   \* this.processedCount
    timers,           \* pending setTimeout(() => this.processQueue(), 100)
    pc,               \* "idle", or "awaiting": processQueue is at its await
    batch,            \* the local `batch` of the suspended processQueue
    analysis,         \* per id, the state of its analyzeAudio promise
    cards,            \* ids whose card is in #results-grid
    removeTimers,     \* ids with a pending 300 ms card.remove() timer
    nextId,           \* the ids generateId has handed out are 1..nextId-1
    fileOf,           \* history: per id, the kind of file submitted under it
    evicted,          \* history: ids removeCard or clearAllResults removed
    dropped,          \* history: ids clearAllResults removed from queue
    call              \* the last call of an analysis function: [fn, arg, ret]

vars == <<queue, processingQueue, results, settings, isProcessing, totalFiles,
          processedCount, timers, pc, batch, analysis, cards, removeTimers,
          nextId, fileOf, evicted, dropped, call>>

hist == <<fileOf, evicted, dropped>>

\* The state as one record, so that a handler is an operator from state to
\* state and a handler that calls another is a composition.
Cur ==
    [queue |-> queue, processingQueue |-> processingQueue, results |-> results,
     settings |-> settings, isProcessing |-> isProcessing,
     totalFiles |-> totalFiles, processedCount |-> processedCount,
     timers |-> timers, pc |-> pc, batch |-> batch, analysis |-> analysis,
     cards |-> cards, removeTimers |-> removeTimers, nextId |-> nextId]

Becomes(s) ==
    /\ queue' = s.queue
    /\ processingQueue' = s.processingQueue
    /\ results' = s.results
    /\ settings' = s.settings
    /\ isProcessing' = s.isProcessing
    /\ totalFiles' = s.totalFiles
    /\ processedCount' = s.processedCount
    /\ timers' = s.timers
    /\ pc' = s.pc
    /\ batch' = s.batch
    /\ analysis' = s.analysis
    /\ cards' = s.cards
    /\ removeTimers' = s.removeTimers
    /\ nextId' = s.nextId
    /\ call' = call

\* ---- construction -------------------------------------------------------
\* loadSettings: the defaults, overridden by whatever was saved.
loadSettings(saved) ==
    saved @@ [concurrentLimit |-> DefaultConcurrentLimit, fftSize |-> DefaultFftSize]

SavedSettings ==
    {<<>>} \cup [{"concurrentLimit"} -> 1..MaxLimit] \cup [{"fftSize"} -> FftSizes]

Init ==
    /\ queue = <<>>
    /\ processingQueue = <<>>
    /\ results = {}
    /\ settings \in {loadSettings(saved) : saved \in SavedSettings}
    /\ isProcessing = FALSE
    /\ totalFiles = 0
    /\ processedCount = 0
    /\ timers = 0
    /\ pc = "idle"
    /\ batch = <<>>
    /\ analysis = [i \in 1..MaxFiles |-> "none"]
    /\ cards = {}
    /\ removeTimers = {}
    /\ nextId = 1
    /\ fileOf = [i \in 1..MaxFiles |-> "none"]
    /\ evicted = {}
    /\ dropped = {}
    /\ call = NoCall

\* ---- handleFiles ---------------------------------------------------------
\* The filter of handleFiles: the MIME type or the extension says audio.
IsAudio(file) == file # "text"

\* generateId: a timestamp followed by random digits, a fresh id per call;
\* n counts the calls made so far, plus one.
generateId(n) == n

\* audioFiles.forEach(file => this.queue.set(id, {...}))
RECURSIVE Enqueue(_, _)
Enqueue(s, files) ==
    IF files = <<>> THEN s
    ELSE LET id == generateId(s.nextId)
             entry == [id |-> id, file |-> Head(files), status |-> "queued",
                       card |-> Null]
         IN Enqueue([s EXCEPT !.queue = MapSet(@, id, entry),
                              !.nextId = @ + 1],
                    Tail(files))

\* ---- analyzeAudio --------------------------------------------------------
\* updateCardStatus starts with card.querySelector(...): a TypeError when
\* card is null.
updateCardStatusThrows(card) == card = Null

\* analyzeAudio up to its first suspension.  It marks the entry processing
\* and calls updateCardStatus(card, 'processing').  When that throws, the
\* catch block calls updateCardStatus(card, 'error') with the same card,
\* which throws again, out of the catch block: the two deletes that follow
\* it are skipped and the promise is rejected.  Otherwise the function
\* suspends at `await file.arrayBuffer()` with its promise pending.
\* Every entry carries the card handleFiles stored, which is null, so the
\* code after the first updateCardStatus call (read, decode, spectral
\* analysis, results.set, processedCount++) is never reached.
analyzeAudio(s, data) ==
    LET s1 == [s EXCEPT !.processingQueue =
                   MapSet(@, data.id, [data EXCEPT !.status = "processing"])]
    IN IF updateCardStatusThrows(data.card)
       THEN [s1 EXCEPT !.analysis[data.id] = "rejected"]
       ELSE [s1 EXCEPT !.analysis[data.id] = "pending"]

\* ---- processQueue --------------------------------------------------------
\* Variant: the batch is sliced from the back of the queue.
takeBatchFromBack(q, limit) ==
    SubSeq(q, Len(q) - Min(limit, Len(q)) + 1, Len(q))

\* Variant: the batch size ignores the setting and uses the default.
takeBatchDefaultLimit(q, limit) ==
    SubSeq(q, 1, Min(DefaultConcurrentLimit, Len(q)))

\* Array.from(this.queue.entries()).slice(0, batchSize)
takeBatch(q, limit) == SubSeq(q, 1, Min(limit, Len(q)))

\* Variant: batch.forEach without the queue.delete.
RECURSIVE moveBatchKeepsQueued(_, _)
moveBatchKeepsQueued(s, b) ==
    IF b = <<>> THEN s
    ELSE LET data == Head(b)
         IN moveBatchKeepsQueued(
                [s EXCEPT !.processingQueue = MapSet(@, data.id, data),
                          !.cards = @ \cup {data.id}],
                Tail(b))

\* batch.forEach: queue.delete, processingQueue.set, createCardUI.  The card
\* createCardUI returns is prepended to the grid and dropped: data.card
\* stays what handleFiles stored.
RECURSIVE moveBatch(_, _)
moveBatch(s, b) ==
    IF b = <<>> THEN s
    ELSE LET data == Head(b)
         IN moveBatch([s EXCEPT !.queue = MapDelete(@, data.id),
                                !.processingQueue = MapSet(@, data.id, data),
                                !.cards = @ \cup {data.id}],
                      Tail(b))

\* batch.map(data => this.analyzeAudio(data))
RECURSIVE launchBatch(_, _)
launchBatch(s, b) ==
    IF b = <<>> THEN s
    ELSE launchBatch(analyzeAudio(s, Head(b)), Tail(b))

\* processQueue up to `await Promise.allSettled(...)`.
processQueue(s) ==
    IF s.isProcessing \/ Len(s.queue) = 0 THEN s
    ELSE LET b == takeBatch(s.queue, s.settings.concurrentLimit)
             s1 == [s EXCEPT !.isProcessing = TRUE]
             s2 == launchBatch(moveBatch(s1, b), b)
         IN [s2 EXCEPT !.pc = "awaiting", !.batch = b]

hideGlobalLoader(s) == [s EXCEPT !.processedCount = 0, !.totalFiles = 0]

\* Promise.allSettled resolves once every promise of the batch has settled.
allSettled(s) ==
    \A i \in DOMAIN s.batch :
        s.analysis[s.batch[i].id] \in {"fulfilled", "rejected"}

\* processQueue after the await.
processQueueResume(s) ==
    LET s1 == [s EXCEPT !.isProcessing = FALSE, !.pc = "idle", !.batch = <<>>]
    IN IF Len(s1.queue) > 0
       THEN [s1 EXCEPT !.timers = @ + 1]
       ELSE hideGlobalLoader(s1)

\* Variant: the files handed in are counted as processed, not as total.
handleFilesCountsProcessed(s, files) ==
    LET audioFiles == SelectSeq(files, IsAudio)
    IN IF Len(audioFiles) = 0 THEN s
       ELSE processQueue(
                Enqueue([s EXCEPT !.processedCount = @ + Len(audioFiles)],
                        audioFiles))

handleFiles(s, files) ==
    LET audioFiles == SelectSeq(files, IsAudio)
    IN IF Len(audioFiles) = 0 THEN s
       ELSE processQueue(
                Enqueue([s EXCEPT !.totalFiles = @ + Len(audioFiles)],
                        audioFiles))

\* ---- eviction ------------------------------------------------------------
removeCard(s, id) ==
    [s EXCEPT !.queue = MapDelete(@, id),
              !.processingQueue = MapDelete(@, id),
              !.results = @ \ {id},
              !.removeTimers = @ \cup {id}]

\* The 300 ms timer of removeCard: card.remove().
removeCardTimer(s, id) ==
    [s EXCEPT !.cards = @ \ {id}, !.removeTimers = @ \ {id}]

\* clearAllResults returns early when there is neither a result nor a queued
\* item, and does nothing when the user declines the confirm() dialog (ok).
clearAllRuns(s, ok) == ~(s.results = {} /\ Len(s.queue) = 0) /\ ok

\* Variant: clearAllResults without the queue.clear().
clearAllResultsKeepsQueue(s, ok) ==
    IF ~clearAllRuns(s, ok) THEN s
    ELSE hideGlobalLoader(
             [s EXCEPT !.processingQueue = <<>>,
                       !.results = {}, !.cards = {},
                       !.processedCount = 0, !.totalFiles = 0])

clearAllResults(s, ok) ==
    IF ~clearAllRuns(s, ok) THEN s
    ELSE hideGlobalLoader(
             [s EXCEPT !.queue = <<>>, !.processingQueue = <<>>,
                       !.results = {}, !.cards = {},
                       !.processedCount = 0, !.totalFiles = 0])

\* ---- settings ------------------------------------------------------------
\* The change handler of the settings selects: this.settings[key] = value,
\* where key is the `for` attribute of the select's label and value the
\* selected option (Math.min in processQueue converts it to a number).
settingsChange(s, key, value) == [s EXCEPT !.settings[key] = value]

SettingValues(key) ==
    IF key = "concurrentLimit" THEN 1..MaxLimit ELSE FftSizes

\* ---- the steps of the event loop ---------------------------------------
FileLists == UNION {[1..n -> FileKinds] : n \in 0..MaxDrop}

\* The file kind each id was submitted with, once s holds the new entries.
Submitted(s) ==
    LET all == s.queue \o s.processingQueue
    IN [id \in 1..MaxFiles |->
           IF fileOf[id] = "none" /\ id \in Ids(all)
           THEN (CHOOSE e \in {all[i] : i \in DOMAIN all} : e.id = id).file
           ELSE fileOf[id]]

HandleFiles ==
    /\ pc = "idle"
    /\ \E files \in FileLists :
        /\ nextId + Len(SelectSeq(files, IsAudio)) - 1 <= MaxFiles
        /\ Becomes(handleFiles(Cur, files))
        /\ fileOf' = Submitted(handleFiles(Cur, files))
    /\ UNCHANGED <<evicted, dropped>>

ProcessQueueResume ==
    /\ pc = "awaiting"
    /\ allSettled(Cur)
    /\ Becomes(processQueueResume(Cur))
    /\ UNCHANGED hist

ProcessQueueTimer ==
    /\ pc = "idle"
    /\ timers > 0
    /\ Becomes(processQueue([Cur EXCEPT !.timers = @ - 1]))
    /\ UNCHANGED hist

RemoveCard ==
    /\ pc = "idle"
    /\ \E id \in cards :
        /\ Becomes(removeCard(Cur, id))
        /\ evicted' = evicted \cup {id}
    /\ UNCHANGED <<fileOf, dropped>>

RemoveCardTimer ==
    /\ pc = "idle"
    /\ \E id \in removeTimers : Becomes(removeCardTimer(Cur, id))
    /\ UNCHANGED hist

ClearAllResults ==
    /\ pc = "idle"
    /\ \E ok \in BOOLEAN :
        /\ Becomes(clearAllResults(Cur, ok))
        /\ IF clearAllRuns(Cur, ok)
           THEN /\ evicted' = evicted \cup Ids(queue) \cup Ids(processingQueue)
                                      \cup results
                /\ dropped' = dropped \cup Ids(queue)
           ELSE UNCHANGED <<evicted, dropped>>
    /\ UNCHANGED fileOf

SettingsChange ==
    /\ pc = "idle"
    /\ \E key \in {"concurrentLimit", "fftSize"} :
        \E value \in SettingValues(key) :
            Becomes(settingsChange(Cur, key, value))
    /\ UNCHANGED hist

Next ==
    \/ HandleFiles
    \/ ProcessQueueResume
    \/ ProcessQueueTimer
    \/ RemoveCard
    \/ RemoveCardTimer
    \/ ClearAllResults
    \/ SettingsChange

Spec == Init /\ [][Next]_vars

\* The same program when nobody touches the settings during the run.
NextSteady ==
    \/ HandleFiles
    \/ ProcessQueueResume
    \/ ProcessQueueTimer
    \/ RemoveCard
    \/ RemoveCardTimer
    \/ ClearAllResults

SteadySpec == Init /\ [][NextSteady]_vars

\* The event loop runs a ready microtask and fires a due timer.
FairSpec ==
    Spec /\ WF_vars(ProcessQueueResume) /\ WF_vars(ProcessQueueTimer)

Settled == {"fulfilled", "rejected"}

AllIds == 1..MaxFiles

\* ======================= the spectral analysis ============================
\* A spectrum is the Float32Array that getFloatFrequencyData fills: a
\* function from the bins 0..n-1 to a magnitude in dB.  The magnitudes of
\* the model are whole numbers of dB, so every sum and difference the code
\* forms is exact; a quotient is kept as a fraction [num, den] with den > 0.
Length(data) == Cardinality(DOMAIN data)

Max(a, b) == IF a > b THEN a ELSE b

\* q > n and q < n for a fraction q and a whole number n.
Above(q, n) == q.num > n * q.den
Below(q, n) == q.num < n * q.den

\* Math.round: the nearest whole number, a half going up.
Round(q) == (2 * q.num + q.den) \div (2 * q.den)

\* Math.min(100, Math.max(0, x))
Clamp(x, lo, hi) == Min(hi, Max(lo, x))

\* -Infinity and Infinity of calculateDynamicRange, as a magnitude no
\* spectrum of the model comes near.
Infinity == 1000000

\* for (let j = lo; j <= hi; j++) sum += data[j]
RECURSIVE SumRange(_, _, _)
SumRange(data, lo, hi) ==
    IF lo > hi THEN 0 ELSE data[lo] + SumRange(data, lo + 1, hi)

\* smoothArray: per bin, the mean over the bins at most windowSize away.
\* (The Float32Array rounds the mean to single precision; a mean of at most
\* seven whole numbers is never that close to the threshold it is compared
\* with.)
smoothArray(data, windowSize) ==
    [i \in DOMAIN data |->
        LET lo == Max(0, i - windowSize)
            hi == Min(Length(data) - 1, i + windowSize)
        IN [num |-> SumRange(data, lo, hi), den |-> hi - lo + 1]]

\* for (let i = 1; i < window; i++) slopeSum += data[c + i] - data[c + i - 1]
RECURSIVE slopeLoop(_, _, _, _)
slopeLoop(frequencyData, cutoffBin, i, window) ==
    IF ~(i < window) THEN 0
    ELSE (frequencyData[cutoffBin + i] - frequencyData[cutoffBin + i - 1])
         + slopeLoop(frequencyData, cutoffBin, i + 1, window)

detectArtificialCutoff(frequencyData, cutoffBin) ==
    LET window == Min(50, Length(frequencyData) - cutoffBin - 1)
    IN IF window < 10 THEN FALSE
       ELSE LET slopeSum == slopeLoop(frequencyData, cutoffBin, 1, window)
                avgSlope == [num |-> slopeSum, den |-> window]
            IN Below(avgSlope, -3)

\* for (i = 0; i < smoothed.length; i++) if (smoothed[i] > threshold) lastBin = i
\* Variant: the scan keeps the first bin above the threshold.
RECURSIVE scanBinsFirst(_, _, _, _)
scanBinsFirst(smoothed, threshold, lo, hi) ==
    IF lo > hi THEN -1
    ELSE IF lo = hi
         THEN IF Above(smoothed[lo], threshold) THEN lo ELSE -1
    ELSE LET mid == (lo + hi) \div 2
             lower == scanBinsFirst(smoothed, threshold, lo, mid)
         IN IF lower # -1 THEN lower
            ELSE scanBinsFirst(smoothed, threshold, mid + 1, hi)

\* for (i = lo; i <= hi; i++) if (smoothed[i] > threshold) lastBin = i:
\* the last bin of lo..hi above the threshold, -1 when the loop assigns
\* nothing.  The upper half of the range decides before the lower half.
RECURSIVE scanBins(_, _, _, _)
scanBins(smoothed, threshold, lo, hi) ==
    IF lo > hi THEN -1
    ELSE IF lo = hi
         THEN IF Above(smoothed[lo], threshold) THEN lo ELSE -1
    ELSE LET mid == (lo + hi) \div 2
             upper == scanBins(smoothed, threshold, mid + 1, hi)
         IN IF upper # -1 THEN upper
            ELSE scanBins(smoothed, threshold, lo, mid)

\* Variant: findCutoffFrequency with a threshold of -90 dB.
findCutoffFrequencyLowThreshold(frequencyData) ==
    LET threshold == -90
        nyquist == 44100 \div 2
        smoothed == smoothArray(frequencyData, 3)
        assigned == scanBins(smoothed, threshold, 0, Length(smoothed) - 1)
        lastBin == IF assigned = -1 THEN 0 ELSE assigned
        frequency == [num |-> lastBin * nyquist,
                      den |-> Length(frequencyData) - 1]
    IN [frequency |-> Round(frequency), bin |-> lastBin,
        isArtificial |-> detectArtificialCutoff(frequencyData, lastBin),
        thresholdUsed |-> threshold]

findCutoffFrequency(frequencyData) ==
    LET threshold == -80
        nyquist == 44100 \div 2
        smoothed == smoothArray(frequencyData, 3)
        assigned == scanBins(smoothed, threshold, 0, Length(smoothed) - 1)
        lastBin == IF assigned = -1 THEN 0 ELSE assigned
        frequency == [num |-> lastBin * nyquist,
                      den |-> Length(frequencyData) - 1]
    IN [frequency |-> Round(frequency), bin |-> lastBin,
        isArtificial |-> detectArtificialCutoff(frequencyData, lastBin),
        thresholdUsed |-> threshold]

\* The loop of calculateDynamicRange over the bins lo..hi: max is the
\* largest magnitude below 0 dB (-Infinity when there is none), min the
\* smallest magnitude.  The two halves of the range are combined.
RECURSIVE rangeLoop(_, _, _)
rangeLoop(frequencyData, lo, hi) ==
    IF lo > hi THEN [max |-> -Infinity, min |-> Infinity]
    ELSE IF lo = hi
         THEN LET v == frequencyData[lo]
              IN [max |-> IF v < 0 THEN v ELSE -Infinity, min |-> v]
    ELSE LET mid == (lo + hi) \div 2
             lower == rangeLoop(frequencyData, lo, mid)
             upper == rangeLoop(frequencyData, mid + 1, hi)
         IN [max |-> Max(lower.max, upper.max),
             min |-> Min(lower.min, upper.min)]

\* calculateDynamicRange: Math.abs(max - min), which is Infinity when no
\* bin is below 0 dB and max is still -Infinity.
calculateDynamicRange(frequencyData) ==
    LET acc == rangeLoop(frequencyData, 0, Length(frequencyData) - 1)
    IN IF acc.max = -Infinity THEN Infinity
       ELSE IF acc.max - acc.min < 0 THEN acc.min - acc.max
       ELSE acc.max - acc.min

\* Variant: a bin equal to a neighbour still counts as a peak.
isPeakNotStrict(frequencyData, i, windowSize) ==
    \A j \in 1..windowSize :
        ~(frequencyData[i] < frequencyData[i - j]
          \/ frequencyData[i] < frequencyData[i + j])

\* The inner loop of findSpectralPeaks: strictly above the windowSize bins
\* on either side.
isPeak(frequencyData, i, windowSize) ==
    \A j \in 1..windowSize :
        ~(frequencyData[i] <= frequencyData[i - j]
          \/ frequencyData[i] <= frequencyData[i + j])

\* findSpectralPeaks: the first ten peaks above -70 dB, in bin order.
findSpectralPeaks(frequencyData) ==
    LET windowSize == 5
        nyquist == 44100 \div 2
        n == Length(frequencyData)
        bins == {i \in windowSize..(n - windowSize - 1) :
                    isPeak(frequencyData, i, windowSize)
                    /\ frequencyData[i] > -70}
        \* peaks.slice(0, 10): the first `most` of the bins, lowest first
        RECURSIVE inOrder(_, _)
        inOrder(rest, most) ==
            IF rest = {} \/ most = 0 THEN <<>>
            ELSE LET i == CHOOSE b \in rest : \A c \in rest : b <= c
                 IN <<[bin |-> i,
                       frequency |-> [num |-> i * nyquist, den |-> n - 1],
                       magnitude |-> frequencyData[i]]>>
                    \o inOrder(rest \ {i}, most - 1)
    IN inOrder(bins, 10)

\* Variant: the penalties are subtracted (30, 50 and 20) and not multiplied.
calculateConfidenceAdditive(frequencyData, cutoff) ==
    LET dynamicRange == calculateDynamicRange(frequencyData)
        peaks == findSpectralPeaks(frequencyData)
        c0 == 100
        c1 == IF dynamicRange < 30 THEN c0 - 30 ELSE c0
        c2 == IF cutoff.isArtificial THEN c1 - 50 ELSE c1
        c3 == IF Len(peaks) > 5 THEN c2 - 20 ELSE c2
    IN Min(100, Max(0, c3))

\* calculateConfidence: 100, times 0.7, 0.5 and 0.8 for the reasons that
\* apply, rounded and clamped.  The product is kept in thousandths.
calculateConfidence(frequencyData, cutoff) ==
    LET dynamicRange == calculateDynamicRange(frequencyData)
        peaks == findSpectralPeaks(frequencyData)
        c0 == 100 * 1000
        c1 == IF dynamicRange < 30 THEN (c0 * 7) \div 10 ELSE c0
        c2 == IF cutoff.isArtificial THEN (c1 * 5) \div 10 ELSE c1
        c3 == IF Len(peaks) > 5 THEN (c2 * 8) \div 10 ELSE c2
    IN Min(100, Max(0, Round([num |-> c3, den |-> 1000])))

qualityThresholds ==
    [excellent |-> [min |-> 20000, label |-> "Lossless", score |-> 100],
     good      |-> [min |-> 18500, label |-> "High Quality", score |-> 85],
     moderate  |-> [min |-> 16000, label |-> "Moderate", score |-> 60],
     poor      |-> [min |-> 14000, label |-> "Low Quality", score |-> 30],
     fake      |-> [min |-> 0, label |-> "Fake/Upscaled", score |-> 10]]

\* The common denominator of the interpolations of evaluateQuality:
\* normalizedScore is kept in units of 1/Scale.
Scale == 1400

\* Variant: the Lossless tier starts above 20000 Hz.
tierOfStrict(freq) ==
    IF freq > 20000 THEN qualityThresholds.excellent
    ELSE IF freq >= 18500 THEN qualityThresholds.good
    ELSE IF freq >= 16000 THEN qualityThresholds.moderate
    ELSE IF freq >= 14000 THEN qualityThresholds.poor
    ELSE qualityThresholds.fake

\* The if-chain of evaluateQuality on cutoff.frequency: the tier.
tierOf(freq) ==
    IF freq >= 20000 THEN qualityThresholds.excellent
    ELSE IF freq >= 18500 THEN qualityThresholds.good
    ELSE IF freq >= 16000 THEN qualityThresholds.moderate
    ELSE IF freq >= 14000 THEN qualityThresholds.poor
    ELSE qualityThresholds.fake

\* Variant: the score of the tier as listed in qualityThresholds, without
\* the interpolation inside the tier.
tierScoreFlat(freq) == tierOf(freq).score * Scale

\* Variant: the Low Quality tier interpolates from 0, not from 30.
tierScoreNoBase(freq) ==
    IF freq >= 20000 THEN 100 * Scale
    ELSE IF freq >= 18500
         THEN 85 * Scale + ((freq - 18500) * 15 * Scale) \div 1500
    ELSE IF freq >= 16000
         THEN 60 * Scale + ((freq - 16000) * 25 * Scale) \div 2500
    ELSE IF freq >= 14000
         THEN ((freq - 14000) * 30 * Scale) \div 2000
    ELSE Max(10 * Scale, (freq * 30 * Scale) \div 14000)

\* The same if-chain: normalizedScore before the adjustments.
tierScore(freq) ==
    IF freq >= 20000 THEN 100 * Scale
    ELSE IF freq >= 18500
         THEN 85 * Scale + ((freq - 18500) * 15 * Scale) \div 1500
    ELSE IF freq >= 16000
         THEN 60 * Scale + ((freq - 16000) * 25 * Scale) \div 2500
    ELSE IF freq >= 14000
         THEN 30 * Scale + ((freq - 14000) * 30 * Scale) \div 2000
    ELSE Max(10 * Scale, (freq * 30 * Scale) \div 14000)

\* Variant: evaluateQuality without the clamp to [0, 100].
evaluateQualityUnclamped(analysisResult, sampleRate) ==
    LET cutoff == analysisResult.cutoff
        freq == cutoff.frequency
        quality == tierOf(freq)
        n0 == tierScore(freq)
        n1 == IF analysisResult.hfEnergy > 5 THEN n0 + 5 * Scale ELSE n0
        n2 == IF analysisResult.spectralFlatness > 80 THEN n1 + 5 * Scale ELSE n1
        n3 == IF analysisResult.dynamicRange > 50 THEN n2 + 5 * Scale ELSE n2
        normalizedScore == IF cutoff.isArtificial THEN n3 - 15 * Scale ELSE n3
    IN [qualityLabel |-> quality.label,
        qualityScore |-> Round([num |-> normalizedScore, den |-> Scale]),
        confidence |-> analysisResult.confidence,
        isUpscaled |-> cutoff.isArtificial]

\* Variant: the score is clamped before the artificial-cutoff adjustment.
evaluateQualityClampFirst(analysisResult, sampleRate) ==
    LET cutoff == analysisResult.cutoff
        freq == cutoff.frequency
        quality == tierOf(freq)
        n0 == tierScore(freq)
        n1 == IF analysisResult.hfEnergy > 5 THEN n0 + 5 * Scale ELSE n0
        n2 == IF analysisResult.spectralFlatness > 80 THEN n1 + 5 * Scale ELSE n1
        n3 == IF analysisResult.dynamicRange > 50 THEN n2 + 5 * Scale ELSE n2
        n4 == Min(100 * Scale, Max(0, n3))
        normalizedScore ==
            IF cutoff.isArtificial THEN Max(0, n4 - 15 * Scale) ELSE n4
    IN [qualityLabel |-> quality.label,
        qualityScore |-> Round([num |-> normalizedScore, den |-> Scale]),
        confidence |-> analysisResult.confidence,
        isUpscaled |-> cutoff.isArtificial]

\* Variant: isUpscaled says that the cutoff is in the Fake/Upscaled tier.
evaluateQualityUpscaledByTier(analysisResult, sampleRate) ==
    LET cutoff == analysisResult.cutoff
        freq == cutoff.frequency
        quality == tierOf(freq)
        n0 == tierScore(freq)
        n1 == IF analysisResult.hfEnergy > 5 THEN n0 + 5 * Scale ELSE n0
        n2 == IF analysisResult.spectralFlatness > 80 THEN n1 + 5 * Scale ELSE n1
        n3 == IF analysisResult.dynamicRange > 50 THEN n2 + 5 * Scale ELSE n2
        n4 == IF cutoff.isArtificial THEN n3 - 15 * Scale ELSE n3
        normalizedScore == Min(100 * Scale, Max(0, n4))
    IN [qualityLabel |-> quality.label,
        qualityScore |-> Round([num |-> normalizedScore, den |-> Scale]),
        confidence |-> analysisResult.confidence,
        isUpscaled |-> quality = qualityThresholds.fake]

\* evaluateQuality.  hfEnergy is a percentage, spectralFlatness is given in
\* hundredths, dynamicRange in dB.  qualityColor and normalizedFreq, two
\* display strings, are left out of the verdict.
evaluateQuality(analysisResult, sampleRate) ==
    LET cutoff == analysisResult.cutoff
        freq == cutoff.frequency
        quality == tierOf(freq)
        n0 == tierScore(freq)
        n1 == IF analysisResult.hfEnergy > 5 THEN n0 + 5 * Scale ELSE n0
        n2 == IF analysisResult.spectralFlatness > 80 THEN n1 + 5 * Scale ELSE n1
        n3 == IF analysisResult.dynamicRange > 50 THEN n2 + 5 * Scale ELSE n2
        n4 == IF cutoff.isArtificial THEN n3 - 15 * Scale ELSE n3
        normalizedScore == Min(100 * Scale, Max(0, n4))
    IN [qualityLabel |-> quality.label,
        qualityScore |-> Round([num |-> normalizedScore, den |-> Scale]),
        confidence |-> analysisResult.confidence,
        isUpscaled |-> cutoff.isArtificial]

\* The analysis of performSpectralAnalysis from the analyser's spectrum.
\* calculateHFEnergy and calculateSpectralFlatness are not computed: their
\* results are given.  frequencyData, which the verdict does not use, is
\* left out of the record.
performSpectralAnalysis(frequencyData, hfEnergy, spectralFlatness) ==
    LET cutoff == findCutoffFrequency(frequencyData)
    IN [cutoff |-> cutoff,
        dynamicRange |-> calculateDynamicRange(frequencyData),
        hfEnergy |-> hfEnergy,
        spectralFlatness |-> spectralFlatness,
        peaks |-> findSpectralPeaks(frequencyData),
        confidence |-> calculateConfidence(frequencyData, cutoff)]

\* ---- the inputs of the analysis functions --------------------------------
SmallBins == 7     \* bins of the spectra enumerated level by level
StepBins == 12     \* bins of the two-step spectra

\* Magnitudes on either side of the -80 dB threshold.
SmallLevels == {-100, -85, -10}

\* Magnitudes for the steps: 0 dB, a drop just at and just past 3 dB/bin
\* over ten bins, and two magnitudes below the threshold.
Levels == {0, -30, -31, -85, -100}

SmallSpectra == [0..(SmallBins - 1) -> SmallLevels]

\* Magnitude a up to bin p, b after it, e in the last bin.
Step(p, a, b, e) ==
    [i \in 0..(StepBins - 1) |->
        IF i <= p THEN a ELSE IF i < StepBins - 1 THEN b ELSE e]

StepSpectra ==
    {Step(p, a, b, e) : p \in 0..(StepBins - 1), a \in Levels, b \in Levels,
                        e \in Levels}

\* One bin in six at hi, the others at lo: a spectrum of n bins with a peak
\* every sixth bin.
Comb(n, hi, lo) == [i \in 0..(n - 1) |-> IF i % 6 = 5 THEN hi ELSE lo]

CombSpectra ==
    {Comb(n, hi, lo) : n \in {40, 41, 71}, hi \in {-10, -69, -70},
                       lo \in {-20, -100}}

\* The spectrum of a brick-wall low-pass: the bins 0..1999 at -10 dB, the
\* later bins of the 2048 (fftSize 4096) at -100 dB.
BrickWall ==
    [i \in 0..((DefaultFftSize \div 2) - 1) |-> IF i < 2000 THEN -10 ELSE -100]

\* Silence: every bin at the -100 dB floor, for the smallest fftSize (32).
Silent == [i \in 0..15 |-> -100]

\* A comb of n bins (flat when hi = lo) followed by 16 bins at floor.
Cliff(n, hi, lo, floor) ==
    [i \in 0..(n + 15) |-> IF i < n THEN Comb(n, hi, lo)[i] ELSE floor]

\* Tops at, above and below 0 dB, with and without peaks, over a floor that
\* is 90 dB or 190 dB below.
CliffSpectra ==
    {Cliff(42, t[1], t[2], floor) :
        t \in {<<-10, -10>>, <<0, 0>>, <<-10, -20>>, <<10, 0>>},
        floor \in {-100, -200}}

\* What calculateHFEnergy and calculateSpectralFlatness return, on either
\* side of the values evaluateQuality compares them with.
Features ==
    {[hfEnergy |-> 0, spectralFlatness |-> 0],
     [hfEnergy |-> 6, spectralFlatness |-> 81]}

Spectra == SmallSpectra \cup StepSpectra \cup CombSpectra \cup {BrickWall, Silent}

\* Cutoff frequencies around every tier boundary, and some inside the tiers.
Frequencies ==
    {0, 1, 4666, 4667, 4900, 13999, 14000, 14001, 15000, 15999, 16000, 16001,
     17250, 18499, 18500, 18501, 18550, 19999, 20000, 20001, 22050}

\* The analysis records handed to evaluateQuality: the features on either
\* side of the value they are compared with.
Analyses ==
    [cutoff : [frequency : Frequencies, isArtificial : BOOLEAN],
     hfEnergy : {0, 5, 6},
     spectralFlatness : {0, 80, 81},
     dynamicRange : {0, 50, 51},
     confidence : {28, 100}]

\* Analysis records for every whole cutoff frequency up to 22050 Hz, with
\* no feature bonus or all three of them, with and without the artificial
\* cutoff.
SweepAnalyses ==
    {[cutoff |-> [frequency |-> f, isArtificial |-> artificial],
      hfEnergy |-> IF bonus THEN 6 ELSE 0,
      spectralFlatness |-> IF bonus THEN 81 ELSE 0,
      dynamicRange |-> IF bonus THEN 51 ELSE 0,
      confidence |-> 100] :
        f \in 0..22050, artificial \in BOOLEAN, bonus \in BOOLEAN}

Invoke(fn, arg) == [fn |-> fn, arg |-> arg, done |-> FALSE, ret |-> <<>>]

\* ---- the analysis functions as steps -------------------------------------
sched == <<queue, processingQueue, results, settings, isProcessing, totalFiles,
           processedCount, timers, pc, batch, analysis, cards, removeTimers,
           nextId, fileOf, evicted, dropped>>

Pending(fn) == call.fn = fn /\ ~call.done

Return(ret) == call' = [call EXCEPT !.done = TRUE, !.ret = ret]

FindCutoffFrequency ==
    /\ Pending("findCutoffFrequency")
    /\ Return(findCutoffFrequency(call.arg.frequencyData))
    /\ UNCHANGED sched

DetectArtificialCutoff ==
    /\ Pending("detectArtificialCutoff")
    /\ Return(detectArtificialCutoff(call.arg.frequencyData,
                                     call.arg.cutoffBin))
    /\ UNCHANGED sched

CalculateConfidence ==
    /\ Pending("calculateConfidence")
    /\ Return(calculateConfidence(call.arg.frequencyData, call.arg.cutoff))
    /\ UNCHANGED sched

CalculateDynamicRange ==
    /\ Pending("calculateDynamicRange")
    /\ Return(calculateDynamicRange(call.arg.frequencyData))
    /\ UNCHANGED sched

FindSpectralPeaks ==
    /\ Pending("findSpectralPeaks")
    /\ Return(findSpectralPeaks(call.arg.frequencyData))
    /\ UNCHANGED sched

\* analyzeAudio, lines 337-340: the analysis of the spectrum, then the
\* verdict on it.
PerformSpectralAnalysis ==
    /\ Pending("performSpectralAnalysis")
    /\ Return(evaluateQuality(
                  performSpectralAnalysis(call.arg.frequencyData,
                                          call.arg.hfEnergy,
                                          call.arg.spectralFlatness),
                  call.arg.sampleRate))
    /\ UNCHANGED sched

EvaluateQuality ==
    /\ Pending("evaluateQuality")
    /\ Return(evaluateQuality(call.arg.analysis, call.arg.sampleRate))
    /\ UNCHANGED sched

AnalysisInit ==
    /\ queue = <<>>
    /\ processingQueue = <<>>
    /\ results = {}
    /\ settings = loadSettings(<<>>)
    /\ isProcessing = FALSE
    /\ totalFiles = 0
    /\ processedCount = 0
    /\ timers = 0
    /\ pc = "idle"
    /\ batch = <<>>
    /\ analysis = [i \in 1..MaxFiles |-> "none"]
    /\ cards = {}
    /\ removeTimers = {}
    /\ nextId = 1
    /\ fileOf = [i \in 1..MaxFiles |-> "none"]
    /\ evicted = {}
    /\ dropped = {}
    /\ \/ \E d \in Spectra :
              call = Invoke("findCutoffFrequency", [frequencyData |-> d])
       \/ \E d \in StepSpectra \cup {Silent} : \E b \in DOMAIN d :
              call = Invoke("detectArtificialCutoff",
                            [frequencyData |-> d, cutoffBin |-> b])
       \/ \E b \in {1999, 2000, 2001} :
              call = Invoke("detectArtificialCutoff",
                            [frequencyData |-> BrickWall, cutoffBin |-> b])
       \/ \E d \in Spectra : \E artificial \in BOOLEAN :
              \* the cutoff found for d, with either value of the one
              \* field calculateConfidence reads
              call = Invoke("calculateConfidence",
                            [frequencyData |-> d,
                             cutoff |-> [findCutoffFrequency(d) EXCEPT
                                            !.isArtificial = artificial]])
       \/ \E d \in Spectra :
              call = Invoke("calculateDynamicRange", [frequencyData |-> d])
       \/ \E d \in Spectra :
              call = Invoke("findSpectralPeaks", [frequencyData |-> d])
       \/ \E d \in Spectra \cup CliffSpectra : \E f \in Features :
              call = Invoke("performSpectralAnalysis",
                            [frequencyData |-> d, hfEnergy |-> f.hfEnergy,
                             spectralFlatness |-> f.spectralFlatness,
                             sampleRate |-> 44100])
       \/ \E a \in Analyses \cup SweepAnalyses :
              call = Invoke("evaluateQuality",
                            [analysis |-> a, sampleRate |-> 44100])

AnalysisNext ==
    \/ FindCutoffFrequency
    \/ DetectArtificialCutoff
    \/ CalculateConfidence
    \/ CalculateDynamicRange
    \/ FindSpectralPeaks
    \/ PerformSpectralAnalysis
    \/ EvaluateQuality

AnalysisSpec == AnalysisInit /\ [][AnalysisNext]_vars

\* A call of fn that has returned.
Returned(fn) == call.fn = fn /\ call.done

\* ======================= the claims =======================================

\* A transform size an AnalyserNode accepts is a power of two.
RECURSIVE IsPowerOfTwo(_)
IsPowerOfTwo(n) ==
    IF n <= 1 THEN n = 1
    ELSE n % 2 = 0 /\ IsPowerOfTwo(n \div 2)

\* C1: in every reachable state the number of entries of processingQueue is
\* at most settings.concurrentLimit.
C1_ProcessingWithinLimit == Len(processingQueue) <= settings.concurrentLimit

\* C2: every submitted item eventually is in neither queue nor
\* processingQueue (it ended Done or Failed, or the caller removed it),
\* given that the continuation of processQueue and its 100 ms timer run.
C2_EveryItemTerminates ==
    \A id \in AllIds :
        (fileOf[id] # "none")
            ~> (id \notin Ids(queue) /\ id \notin Ids(processingQueue))

\* C3: an item whose analysis failed is removed from processingQueue and has
\* no verdict.
C3_FailedItemLeavesProcessing ==
    \A id \in AllIds :
        analysis[id] = "rejected"
            => (id \notin Ids(processingQueue) /\ id \notin results)

\* C4: an id is in at most one of queue and processingQueue; an id that left
\* queue never re-enters it; an id whose analysis settled and that left
\* processingQueue returns to neither collection.
C4_ForwardOnly ==
    /\ [](Ids(queue) \cap Ids(processingQueue) = {})
    /\ [][\A id \in AllIds :
            /\ (fileOf[id] # "none" /\ id \notin Ids(queue))
                   => id \notin Ids(queue')
            /\ (analysis[id] \in Settled /\ id \notin Ids(processingQueue))
                   => (id \notin Ids(processingQueue') /\ id \notin Ids(queue'))
         ]_vars

\* An item has gone from queue through processingQueue to failed and evicted,
\* while another is processing and a third is queued.
C4_Witness ==
    /\ \E c \in evicted : analysis[c] = "rejected"
    /\ \E a \in Ids(processingQueue) : analysis[a] = "rejected"
    /\ queue # <<>>

\* C5: with a valid transform size that nobody changes, an item whose file
\* reads and decodes and whose analysis has settled has an entry in results
\* and is out of processingQueue (unless the caller evicted it); only such
\* an item has an entry in results.
C5_OneVerdictPerCompletedItem ==
    \A id \in AllIds :
        /\ (/\ IsPowerOfTwo(settings.fftSize)
            /\ analysis[id] \in Settled
            /\ fileOf[id] = "good"
            /\ id \notin evicted)
               => (id \in results /\ id \notin Ids(processingQueue))
        /\ id \in results => (analysis[id] = "fulfilled" /\ fileOf[id] = "good")

\* C7: items are dequeued in submission order: the batch and the queue that
\* remains are in the order of submission, and no item was started while an
\* item submitted before it is still queued.
Ascending(m) == \A i, j \in DOMAIN m : i < j => m[i].id < m[j].id

C7_Fifo ==
    /\ Ascending(batch \o queue)
    /\ \A a, b \in AllIds :
           (a < b /\ a \in Ids(queue))
               => (analysis[b] = "none" /\ b \notin Ids(processingQueue))

\* A pass took two items from the front and left a later one queued.
C7_Witness ==
    /\ pc = "awaiting"
    /\ Len(batch) >= 2
    /\ queue # <<>>

C10_InvalidFftSizeSchedulesNothing ==
    [][~IsPowerOfTwo(settings.fftSize)
          => Ids(processingQueue') \subseteq Ids(processingQueue)]_vars

\* ---- claims about the analysis functions (AnalysisSpec) ------------------
\* The features of the evaluateQuality call at hand.
Freq == call.arg.analysis.cutoff.frequency
IsArtificial == call.arg.analysis.cutoff.isArtificial
HfBonus == call.arg.analysis.hfEnergy > 5
FlatnessBonus == call.arg.analysis.spectralFlatness > 80
RangeBonus == call.arg.analysis.dynamicRange > 50

\* C11: for every spectrum and every combination of features, the
\* qualityScore evaluateQuality returns and the confidence
\* calculateConfidence returns are integers in [0, 100].
C11_ScoresInRange ==
    /\ Returned("evaluateQuality") => call.ret.qualityScore \in 0..100
    /\ Returned("calculateConfidence") => call.ret \in 0..100

\* The sum before the clamp is 105: the clamp is what keeps the score at 100.
C11_Witness ==
    /\ Returned("evaluateQuality")
    /\ Freq = 20000 /\ HfBonus /\ ~IsArtificial
    /\ call.ret.qualityScore = 100

\* C12: a sharp low-pass spectrum, the bins 0..1999 at -10 dB and the later
\* bins of the 2048 at -100 dB, put through findCutoffFrequency yields
\* isArtificial = true.
C12_BrickWallIsArtificial ==
    (Returned("findCutoffFrequency") /\ call.arg.frequencyData = BrickWall)
        => call.ret.isArtificial

\* How many of the three +5 adjustments apply to the call at hand.
Bonuses ==
    (IF HfBonus THEN 1 ELSE 0) + (IF FlatnessBonus THEN 1 ELSE 0)
    + (IF RangeBonus THEN 1 ELSE 0)

\* C13 as stated: with cutoff.frequency = 20000 exactly, evaluateQuality
\* returns the label 'Lossless' and the score 100 for every combination of
\* hfEnergy, spectralFlatness, dynamicRange and isArtificial.
C13_LosslessAlwaysScores100 ==
    (Returned("evaluateQuality") /\ Freq = 20000)
        => /\ call.ret.qualityLabel = "Lossless"
           /\ call.ret.qualityScore = 100

\* C13, amended: with cutoff.frequency = 20000 exactly the label is
\* 'Lossless' for every combination of the other features; the score is
\* 100 when isArtificial is false, and min(100, 85 + 5 for each +5
\* adjustment that applies) when isArtificial is true.
C13_LosslessScore ==
    (Returned("evaluateQuality") /\ Freq = 20000)
        => /\ call.ret.qualityLabel = "Lossless"
           /\ ~IsArtificial => call.ret.qualityScore = 100
           /\ IsArtificial
                  => call.ret.qualityScore = Min(100, 85 + 5 * Bonuses)

\* A 20000 Hz cutoff flagged artificial, with no +5 adjustment: score 85.
C13_Witness ==
    /\ Returned("evaluateQuality")
    /\ Freq = 20000 /\ IsArtificial /\ Bonuses = 0
    /\ call.ret.qualityLabel = "Lossless"
    /\ call.ret.qualityScore = 85

\* C14: for a spectrum in which every bin is below -80 dB,
\* findCutoffFrequency returns bin = 0 and frequency = 0.
C14_AllBelowThreshold ==
    (/\ Returned("findCutoffFrequency")
     /\ \A i \in DOMAIN call.arg.frequencyData :
            call.arg.frequencyData[i] < -80)
        => call.ret.bin = 0 /\ call.ret.frequency = 0

\* A spectrum with all bins below -80 dB and not all of them equal.
C14_Witness ==
    /\ Returned("findCutoffFrequency")
    /\ \A i \in DOMAIN call.arg.frequencyData :
           call.arg.frequencyData[i] < -80
    /\ \E i \in DOMAIN call.arg.frequencyData :
           call.arg.frequencyData[i] = -85
    /\ \E i \in DOMAIN call.arg.frequencyData :
           call.arg.frequencyData[i] = -100
    /\ call.ret.bin = 0 /\ call.ret.frequency = 0

\* C15: a silent file (a decodable file whose spectrum is at the floor in
\* every bin) goes through the analysis without an error, so with a valid
\* transform size that nobody changes, its item ends Done and not Failed:
\* once its analysis has settled, it has not failed.
C15_SilentItemEndsDone ==
    \A id \in AllIds :
        (/\ IsPowerOfTwo(settings.fftSize)
         /\ fileOf[id] = "good"
         /\ analysis[id] \in Settled)
            => analysis[id] # "rejected"

\* The bins of d whose moving average of radius 3 (the mean of the bins at
\* most 3 away, the window cut off at the ends of the spectrum) exceeds
\* -80 dB.
AudibleBins(d) ==
    {i \in DOMAIN d :
        LET first == IF i < 3 THEN 0 ELSE i - 3
            last == IF i + 3 > Length(d) - 1 THEN Length(d) - 1 ELSE i + 3
        IN SumRange(d, first, last) > -80 * (last - first + 1)}

\* C17: findCutoffFrequency returns as bin the highest index whose radius-3
\* moving-average magnitude exceeds -80 dB, and 0 when there is none; the
\* bin is less than the length of the spectrum.
C17_CutoffIsLastAudibleBin ==
    Returned("findCutoffFrequency")
        => LET d == call.arg.frequencyData
               bin == call.ret.bin
               audible == AudibleBins(d)
           IN /\ bin \in 0..(Length(d) - 1)
              /\ audible = {} => bin = 0
              /\ audible # {}
                    => /\ bin \in audible
                       /\ \A i \in audible : i <= bin

\* A spectrum with an audible bin below the cutoff bin and an inaudible bin
\* between the two, the cutoff bin not being the last bin.
C17_Witness ==
    /\ Returned("findCutoffFrequency")
    /\ call.ret.bin < Length(call.arg.frequencyData) - 1
    /\ LET audible == AudibleBins(call.arg.frequencyData)
       IN \E j \in 0..call.ret.bin :
              /\ j \notin audible
              /\ \E i \in 0..j : i \in audible

\* The sum of the k consecutive-bin differences d[c+1] - d[c], ...,
\* d[c+k] - d[c+k-1] of the raw spectrum.
RECURSIVE DifferenceSum(_, _, _)
DifferenceSum(d, c, k) ==
    IF k = 0 THEN 0
    ELSE (d[c + k] - d[c + k - 1]) + DifferenceSum(d, c, k - 1)

\* C18: detectArtificialCutoff returns false when fewer than 10 bins follow
\* the cutoff bin, and otherwise true exactly when the mean of the
\* consecutive-bin differences of the raw spectrum over the min(50, bins
\* remaining) bins that follow the cutoff bin is below -3 dB per bin.
C18_ArtificialIffMeanSlopeSteep ==
    Returned("detectArtificialCutoff")
        => LET d == call.arg.frequencyData
               c == call.arg.cutoffBin
               remaining == Length(d) - c - 1
               window == Min(50, remaining)
           IN call.ret = (/\ remaining >= 10
                          /\ DifferenceSum(d, c, window) < -3 * window)

\* The tier table: the label of a cutoff frequency f ...
TableLabel(f) ==
    IF f >= 20000 THEN "Lossless"
    ELSE IF f >= 18500 THEN "High Quality"
    ELSE IF f >= 16000 THEN "Moderate"
    ELSE IF f >= 14000 THEN "Low Quality"
    ELSE "Fake/Upscaled"

\* ... and whether base, in units of 1/Scale, is the base score of f:
\* 100; 85 + (f-18500)/1500*15; 60 + (f-16000)/2500*25;
\* 30 + (f-14000)/2000*30; max(10, f/14000*30).
IsTableBase(f, base) ==
    IF f >= 20000 THEN base = 100 * Scale
    ELSE IF f >= 18500
         THEN 1500 * (base - 85 * Scale) = (f - 18500) * 15 * Scale
    ELSE IF f >= 16000
         THEN 2500 * (base - 60 * Scale) = (f - 16000) * 25 * Scale
    ELSE IF f >= 14000
         THEN 2000 * (base - 30 * Scale) = (f - 14000) * 30 * Scale
    ELSE /\ base >= 10 * Scale
         /\ 14000 * base >= f * 30 * Scale
         /\ base = 10 * Scale \/ 14000 * base = f * 30 * Scale

\* C19: the label is decided by the cutoff frequency alone and the base
\* score of the tier follows the table: f >= 20000 Lossless 100;
\* 18500 <= f < 20000 High Quality 85 + (f-18500)/1500*15;
\* 16000 <= f < 18500 Moderate 60 + (f-16000)/2500*25;
\* 14000 <= f < 16000 Low Quality 30 + (f-14000)/2000*30;
\* f < 14000 Fake/Upscaled max(10, f/14000*30); f = 17250 gives 72.5.
\* With no adjustment the score returned is the base score, rounded.
C19_TierTable ==
    Returned("evaluateQuality")
        => /\ call.ret.qualityLabel = TableLabel(Freq)
           /\ IsTableBase(Freq, tierScore(Freq))
           /\ 2 * tierScore(17250) = 145 * Scale
           /\ (Bonuses = 0 /\ ~IsArtificial)
                 => /\ 2 * Scale * call.ret.qualityScore - Scale
                           <= 2 * tierScore(Freq)
                    /\ 2 * tierScore(Freq)
                           < 2 * Scale * call.ret.qualityScore + Scale

\* The example of the claim: 17250 Hz, no adjustment, base 72.5, score 73.
C19_Witness ==
    /\ Returned("evaluateQuality")
    /\ Freq = 17250 /\ Bonuses = 0 /\ ~IsArtificial
    /\ call.ret.qualityLabel = "Moderate"
    /\ call.ret.qualityScore = 73

\* C20: the final qualityScore is round(clamp(base + 5*[hfEnergy > 5]
\* + 5*[spectralFlatness > 0.8] + 5*[dynamicRange > 50]
\* - 15*[cutoff.isArtificial], 0, 100)): the four adjustments are added to
\* the base score of the tier before a single clamp.
C20_AdjustmentsThenOneClamp ==
    Returned("evaluateQuality")
        => LET adjusted == tierScore(Freq)
                           + (IF HfBonus THEN 5 * Scale ELSE 0)
                           + (IF FlatnessBonus THEN 5 * Scale ELSE 0)
                           + (IF RangeBonus THEN 5 * Scale ELSE 0)
                           - (IF IsArtificial THEN 15 * Scale ELSE 0)
           IN call.ret.qualityScore
                  = Round([num |-> Clamp(adjusted, 0, 100 * Scale),
                           den |-> Scale])

\* 100 + 5 - 15 = 90: the sum passes 100 before the penalty brings it back.
C20_Witness ==
    /\ Returned("evaluateQuality")
    /\ Freq = 20000 /\ Bonuses = 1 /\ IsArtificial
    /\ call.ret.qualityScore = 90

\* The three reasons calculateConfidence lowers the confidence, for the call
\* at hand.
LowRange == calculateDynamicRange(call.arg.frequencyData) < 30
ArtificialCutoff == call.arg.cutoff.isArtificial
ManyPeaks == Len(findSpectralPeaks(call.arg.frequencyData)) > 5

\* C21: calculateConfidence returns round(100 * 0.7^[dynamicRange < 30]
\* * 0.5^[cutoff.isArtificial] * 0.8^[peak count > 5]) clamped to [0, 100]:
\* the three penalties are independent and multiply, and all three together
\* give 28.
C21_PenaltiesMultiply ==
    Returned("calculateConfidence")
        => LET product == 100 * (IF LowRange THEN 7 ELSE 10)
                              * (IF ArtificialCutoff THEN 5 ELSE 10)
                              * (IF ManyPeaks THEN 8 ELSE 10)
           IN /\ call.ret = Clamp(Round([num |-> product, den |-> 1000]),
                                  0, 100)
              /\ (LowRange /\ ArtificialCutoff /\ ManyPeaks)
                    => call.ret = 28

\* All three penalties at once.
C21_Witness ==
    /\ Returned("calculateConfidence")
    /\ LowRange /\ ArtificialCutoff /\ ManyPeaks
    /\ call.ret = 28

\* The bins of d that have five bins on either side, strictly exceed each
\* of those ten bins and exceed -70 dB.
PeakBins(d) ==
    {i \in 5..(Length(d) - 6) :
        /\ d[i] > -70
        /\ \A j \in (i - 5)..(i + 5) : j # i => d[i] > d[j]}

C23_DynamicRangeFinite ==
    Returned("calculateDynamicRange")
        => LET d == call.arg.frequencyData
               lowest == CHOOSE i \in DOMAIN d : \A j \in DOMAIN d : d[i] <= d[j]
               below == \E i \in DOMAIN d : d[i] < 0
               largest == CHOOSE i \in DOMAIN d :
                              /\ d[i] < 0
                              /\ \A j \in DOMAIN d : d[j] < 0 => d[j] <= d[i]
               max == IF below THEN d[largest] ELSE 0
               range == IF max >= d[lowest] THEN max - d[lowest]
                        ELSE d[lowest] - max
           IN /\ call.ret = range
              /\ call.ret >= 0
              /\ call.ret < Infinity

\* C24: whenever the scheduler is idle (isProcessing is false and no
\* analysis is in flight) processingQueue is empty, because every call of
\* analyzeAudio removes its item on the success path and on the failure
\* path.
C24_IdleMeansNothingProcessing ==
    (/\ ~isProcessing
     /\ pc = "idle"
     /\ \A id \in AllIds : analysis[id] \in {"none"} \cup Settled)
        => processingQueue = <<>>

ScoreAt(f) ==
    evaluateQuality([call.arg.analysis EXCEPT !.cutoff.frequency = f],
                    call.arg.sampleRate).qualityScore

\* C27: with the other features fixed, qualityScore is non-decreasing in
\* cutoff.frequency over the integers 0..22050, the tier boundaries
\* included: the score at the next lower frequency, and at every lower
\* frequency of Frequencies, is at most the score returned.
C27_ScoreMonotoneInCutoff ==
    Returned("evaluateQuality")
        => /\ call.ret.qualityScore = ScoreAt(Freq)
           /\ Freq > 0 => ScoreAt(Freq - 1) <= call.ret.qualityScore
           /\ \A g \in Frequencies :
                  g <= Freq => ScoreAt(g) <= call.ret.qualityScore

\* The first frequency of the Low Quality tier: the score is 30 there and
\* 30 one hertz below, in the Fake/Upscaled tier; and it is higher at the
\* first frequency of the Moderate tier.
C27_Witness ==
    /\ Returned("evaluateQuality")
    /\ Freq = 14000
    /\ ~IsArtificial /\ ~HfBonus /\ ~FlatnessBonus /\ ~RangeBonus
    /\ call.ret.qualityScore = 30
    /\ ScoreAt(13999) = 30
    /\ ScoreAt(16000) = 60

\* C28: every verdict the pipeline (performSpectralAnalysis, then
\* evaluateQuality) produces has its confidence among 100, 80, 70, 56, 50,
\* 40, 35 and 28, and its confidence is at most 50 exactly when isUpscaled
\* is true.
C28_ConfidenceValues ==
    Returned("performSpectralAnalysis")
        => /\ call.ret.confidence \in {100, 80, 70, 56, 50, 40, 35, 28}
           /\ (call.ret.confidence <= 50) <=> call.ret.isUpscaled

\* An upscaled verdict for a spectrum of peaks below 0 dB over a deep
\* floor: confidence 100 * 0.5 * 0.8.
C28_Witness ==
    /\ Returned("performSpectralAnalysis")
    /\ call.ret.isUpscaled
    /\ call.ret.confidence = 40
    /\ \A i \in DOMAIN call.arg.frequencyData : call.arg.frequencyData[i] < 0

====
